---- MODULE Spec2Model ----
(***************************************************************************)
(* GameTrainer native core: cross-process memory access (Process and the   *)
(* gt_ functions of memory_manager.cpp),                                   *)
(* the Present vtable hook (hook.c) and synthetic input (input.cpp,        *)
(* input.c).  Each component has its own specifications: SpecProc,         *)
(* SpecMem, SpecTrip and SpecGt; SpecHook; SpecInput, SpecJitter and      *)
(* SpecSleep.  The operating system is the environment: the                *)
(* outcome of every OS call is a nondeterministic choice among the         *)
(* outcomes the call can have.                                             *)
(***************************************************************************)
EXTENDS Integers, Sequences, FiniteSets, TLC

VARIABLES
    \* ---- Process / memory (memory_manager.cpp) ----
    procs,      \* Process objects: alive, handle_, pid_, is64bit_
    opened,     \* OS: handles returned by OpenProcess so far
    closes,     \* OS: number of CloseHandle calls per handle value
    mem,        \* target process memory, one byte per address
    buf,        \* the caller's buffer handed to Read / gt_read
    last,       \* the last call: its result and the OS transfer it made
    gproc,      \* the gt_process_t of the C interface's caller
    \* ---- Present hook (hook.c) ----
    g_pSwapChain,       \* static IDXGISwapChain*: NULL or a swap chain
    g_originalPresent,  \* static void*: the saved Present pointer
    slot,               \* vtable[8] of the swap-chain class
    prot,               \* protection of the page that holds the slot
    oldProtect,         \* DWORD oldProtect of the running call
    refs,               \* reference count of every swap chain created
    releases,           \* Release() calls made on every swap chain
    pcH,                \* position of the thread calling Install / Remove
    hret,               \* what the last InstallPresentHook returned
    hist,               \* history of the completed Install / Remove calls
    pcR,                \* position of the host's render thread
    depth,              \* HookedPresent frames on the render thread's stack
    pres,               \* the render thread's current or last Present call
    crashed,            \* the fault that ended the process, or "no"
    \* ---- synthetic input (input.cpp, input.c) ----
    build,      \* the translation unit linked in: "cpp" (input.cpp) or "c" (input.c)
    pcIn,       \* position of the thread inside an input call
    call,       \* the running or last input call: function, arguments, locals
    events,     \* what the call did so far: SendInput events and sleeps, in order
    cumX,       \* sum of dx over the mouse-move events of the call
    cumY,       \* sum of dy over the mouse-move events of the call
    nMoves,     \* mouse-move events emitted by the call
    nSleeps,    \* sleeps of the jittered move so far
    slept       \* milliseconds the jittered move slept so far

procVars == <<procs, opened, closes, mem, buf, last>>
hookVars == <<g_pSwapChain, g_originalPresent, slot, prot, oldProtect, refs,
              releases, pcH, hret, hist, pcR, depth, pres, crashed>>

inputVars == <<build, pcIn, call, events, cumX, cumY, nMoves, nSleeps, slept>>

vars == <<procVars, gproc, hookVars, inputVars>>

nonProcVars  == <<gproc, hookVars, inputVars>>
nonHookVars  == <<procVars, gproc, inputVars>>
nonInputVars == <<procVars, gproc, hookVars>>

(***************************************************************************)
(*                    Process / memory component                           *)
(***************************************************************************)

\* Bounds of the model.
MaxHandles == 2      \* OpenProcess calls that succeed in one run
MemSize    == 2      \* committed bytes of the target, addresses 0..MemSize-1
MaxLen     == 2      \* largest transfer length requested

NULL    == 0
Objs    == {"p1", "p2"}
Handles == 1..MaxHandles
Addrs   == {0, MemSize - 1, MemSize}   \* first byte, last byte, first byte past the end
Lens    == 0..MaxLen
Bytes   == {0, 1}

Min(a, b) == IF a < b THEN a ELSE b

\* The process snapshot CreateToolhelp32Snapshot returns, in enumeration
\* order: image name, process id, and whether the process runs under WOW64.
Snapshot ==
    << [name |-> "Game.exe",    pid |-> 8,    wow64 |-> TRUE ],
       [name |-> "notepad.exe", pid |-> 4321, wow64 |-> FALSE],
       [name |-> "notepad.exe", pid |-> 12,   wow64 |-> FALSE] >>

SnapshotPids == {Snapshot[i].pid : i \in 1..Len(Snapshot)}
PidInputs    == SnapshotPids \cup {0, 999}
NameInputs   == {"Game.exe", "game.exe", "notepad.exe", "nosuch.exe"}

\* memory_manager.h:49-52, the default member initialisers.
FreshProcess == [handle_ |-> NULL, pid_ |-> 0, is64bit_ |-> FALSE]
Fields(p)    == [handle_ |-> p.handle_, pid_ |-> p.pid_, is64bit_ |-> p.is64bit_]

IsOpen(h) == h \in opened /\ closes[h] = 0

\* PROCESS_VM_READ | PROCESS_VM_WRITE | PROCESS_VM_OPERATION |
\* PROCESS_QUERY_INFORMATION, the access mask both OpenProcess calls pass.
AttachRights == {"VM_READ", "VM_WRITE", "VM_OPERATION", "QUERY_INFORMATION"}

\* The record of a call: its name and return value; for a memory transfer the
\* handle it ran on, the length asked for, whether the OS transfer call was
\* made and what that call reported; for an attach the handle OpenProcess
\* returned and the rights requested from it (none when it was not called),
\* whether IsWow64Process answered, the name Attach(name) was given, and
\* the error OpenProcess left for GetLastError.
NoCall == [op |-> "none", ret |-> FALSE, h |-> NULL, sz |-> 0, osCalls |-> 0,
           osOk |-> FALSE, osBytes |-> 0, rights |-> {}, probed |-> FALSE,
           name |-> "", oserr |-> "NONE"]

Call(op, ret) == [NoCall EXCEPT !.op = op, !.ret = ret]

\* CloseHandle(h): the OS counts the call.
CloseHandle(cl, h) == [cl EXCEPT ![h] = @ + 1]

\* Detach that closes the handle but keeps the stale value in handle_.
DetachNoNull(p, cl) ==
    [p  |-> [p EXCEPT !.pid_ = 0, !.is64bit_ = FALSE],
     cl |-> IF p.handle_ # NULL THEN CloseHandle(cl, p.handle_) ELSE cl]

\* Process::Detach as a function of (object fields, close counts).
DetachOp(p, cl) ==
    [p  |-> [p EXCEPT !.handle_ = NULL, !.pid_ = 0, !.is64bit_ = FALSE],
     cl |-> IF p.handle_ # NULL THEN CloseHandle(cl, p.handle_) ELSE cl]

\* Process::Process()
Construct(o) ==
    /\ ~procs[o].alive
    /\ procs' = [procs EXCEPT ![o] = [alive |-> TRUE] @@ FreshProcess]
    /\ last' = Call("Construct", TRUE)
    /\ UNCHANGED <<opened, closes, mem, buf, nonProcVars>>

\* A destructor that does not detach.
DestroyNoDetach(o) ==
    /\ procs[o].alive
    /\ procs' = [procs EXCEPT ![o] = [alive |-> FALSE] @@ FreshProcess]
    /\ last' = Call("Destroy", TRUE)
    /\ UNCHANGED <<opened, closes, mem, buf, nonProcVars>>

\* Process::~Process()
Destroy(o) ==
    /\ procs[o].alive
    /\ LET d == DetachOp(procs[o], closes)
       IN  /\ procs' = [procs EXCEPT ![o] = [d.p EXCEPT !.alive = FALSE]]
           /\ closes' = d.cl
    /\ last' = Call("Destroy", TRUE)
    /\ UNCHANGED <<opened, mem, buf, nonProcVars>>

\* Process::Detach()
Detach(o) ==
    /\ procs[o].alive
    /\ LET d == DetachOp(procs[o], closes)
       IN  /\ procs' = [procs EXCEPT ![o] = d.p]
           /\ closes' = d.cl
    /\ last' = Call("Detach", TRUE)
    /\ UNCHANGED <<opened, mem, buf, nonProcVars>>

\* ---- the operating system ----

\* OpenProcess(rights, FALSE, pid): NULL (access denied, no such process, no
\* handle left), or a handle value not handed out before.
OpenProcessOutcomes(pid) ==
    {NULL} \cup
    (IF pid \in SnapshotPids /\ opened # Handles
       THEN {CHOOSE h \in Handles \ opened : \A g \in Handles \ opened : h <= g}
       ELSE {})

\* The error class of an OpenProcess call that returned h: a process that
\* exists refuses the rights (ERROR_ACCESS_DENIED) or has exited since the
\* snapshot, a pid that names no process is ERROR_INVALID_PARAMETER.
OpenErrors(pid, h) ==
    IF h # NULL THEN {"NONE"}
    ELSE IF pid \in SnapshotPids THEN {"ACCESS_DENIED", "INVALID_PARAMETER"}
    ELSE {"INVALID_PARAMETER"}

\* IsWow64Process(h, &isWow64): fails, or reports the target's WOW64 flag.
Wow64Of(pid) == (CHOOSE i \in 1..Len(Snapshot) : Snapshot[i].pid = pid) \in
                {i \in 1..Len(Snapshot) : Snapshot[i].wow64}
IsWow64Outcomes(pid) ==
    {[ok |-> FALSE, isWow64 |-> FALSE], [ok |-> TRUE, isWow64 |-> Wow64Of(pid)]}

\* ReadProcessMemory / WriteProcessMemory on (h, addr, sz): whether the call
\* reports success and how many bytes it moved.  An invalid handle moves
\* nothing; a range that leaves the committed bytes stops at their end.
TransferOutcomes(h, addr, sz) ==
    IF ~IsOpen(h)
      THEN {[ok |-> FALSE, n |-> 0]}
      ELSE LET avail == IF addr < MemSize THEN MemSize - addr ELSE 0
           IN  {r \in [ok : BOOLEAN, n : 0..Min(sz, avail)] :
                    r.ok \/ r.n < sz \/ sz = 0}

\* The bytes the OS moved: n bytes from addr into the start of the buffer,
\* or from the start of data to addr.
CopyOut(b, addr, n) == [i \in 1..MaxLen |-> IF i <= n THEN mem[addr + i - 1] ELSE b[i]]
\* A copy into the target that stores the bytes in reverse order.
CopyInReversed(data, addr, n) ==
    [a \in 0..(MemSize - 1) |-> IF a >= addr /\ a < addr + n THEN data[n - (a - addr)] ELSE mem[a]]

CopyIn(data, addr, n) ==
    [a \in 0..(MemSize - 1) |-> IF a >= addr /\ a < addr + n THEN data[a - addr + 1] ELSE mem[a]]

\* ---- Process (memory_manager.cpp:7-87) ----

\* The OS result alone, ignoring the byte count.
TransferOkOnly(r, sz) == r.ok

\* The return expression of Read, Write, gt_read and gt_write:
\* XxxProcessMemory(...) && bytes == sz.
TransferResult(r, sz) == r.ok /\ r.n = sz

Transfer(op, h, r, sz) ==
    [NoCall EXCEPT !.op = op, !.ret = TransferResult(r, sz), !.h = h, !.sz = sz,
                   !.osCalls = 1, !.osOk = r.ok, !.osBytes = r.n]

\* A lookup in which a later entry of the same name wins.
RECURSIVE FindLastFrom(_, _)
FindLastFrom(i, name) ==
    IF i > Len(Snapshot) THEN 0
    ELSE LET later == FindLastFrom(i + 1, name)
         IN  IF later # 0 THEN later
             ELSE IF Snapshot[i].name = name THEN Snapshot[i].pid ELSE 0

\* gt_find_process_id: the first snapshot entry whose name strcmp-equals
\* name; 0 stands for the false return (out_pid untouched).
RECURSIVE FindFrom(_, _)
FindFrom(i, name) ==
    IF i > Len(Snapshot) THEN 0
    ELSE IF Snapshot[i].name = name THEN Snapshot[i].pid
    ELSE FindFrom(i + 1, name)

\* A lookup that falls back to the first entry when nothing matches.
FindOrFirst(name) ==
    IF FindFrom(1, name) = 0 THEN Snapshot[1].pid ELSE FindFrom(1, name)

gt_find_process_id(name) == FindFrom(1, name)

\* An Attach that keeps the earlier attachment when OpenProcess fails.
AttachOpKeepOnError(p, cl, pid, h, w) ==
    LET d == DetachOp(p, cl)
    IN  IF h = NULL
          THEN [p |-> p, cl |-> cl, ret |-> FALSE]
          ELSE [p |-> [d.p EXCEPT !.handle_ = h, !.pid_ = pid,
                                  !.is64bit_ = IF w.ok THEN ~w.isWow64 ELSE FALSE],
                cl |-> d.cl, ret |-> TRUE]

\* An Attach that takes the target for 64-bit when IsWow64Process fails.
AttachOpDefault64(p, cl, pid, h, w) ==
    LET d == DetachOp(p, cl)
    IN  IF h = NULL
          THEN [p |-> [d.p EXCEPT !.handle_ = NULL], cl |-> d.cl, ret |-> FALSE]
          ELSE [p |-> [d.p EXCEPT !.handle_ = h, !.pid_ = pid,
                                  !.is64bit_ = IF w.ok THEN ~w.isWow64 ELSE TRUE],
                cl |-> d.cl, ret |-> TRUE]

\* Process::Attach(DWORD) as a function of the object, the close counts and
\* the OS outcomes.
AttachOp(p, cl, pid, h, w) ==
    LET d == DetachOp(p, cl)
    IN  IF h = NULL
          THEN [p |-> [d.p EXCEPT !.handle_ = NULL], cl |-> d.cl, ret |-> FALSE]
          ELSE [p |-> [d.p EXCEPT !.handle_ = h, !.pid_ = pid,
                                  !.is64bit_ = IF w.ok THEN ~w.isWow64 ELSE FALSE],
                cl |-> d.cl, ret |-> TRUE]

\* Process::Attach(DWORD pid)
AttachPid(o, pid) ==
    /\ procs[o].alive
    /\ \E h \in OpenProcessOutcomes(pid) : \E w \in IsWow64Outcomes(IF h = NULL THEN Snapshot[1].pid ELSE pid) :
       \E e \in OpenErrors(pid, h) :
         LET a == AttachOp(procs[o], closes, pid, h, w)
         IN  /\ procs' = [procs EXCEPT ![o] = a.p]
             /\ closes' = a.cl
             /\ opened' = IF h = NULL THEN opened ELSE opened \cup {h}
             /\ last' = [Call("AttachPid", a.ret) EXCEPT !.rights = AttachRights,
                                                        !.probed = (h # NULL /\ w.ok),
                                                        !.h = h, !.oserr = e]
    /\ UNCHANGED <<mem, buf, nonProcVars>>

\* An Attach(name) that detaches before it looks the name up.
AttachNameDetachFirst(o, name) ==
    /\ procs[o].alive
    /\ \E snapOk \in BOOLEAN :
       LET pid == IF snapOk THEN gt_find_process_id(name) ELSE 0
           d   == DetachOp(procs[o], closes)
       IN  IF pid = 0
             THEN /\ last' = [Call("AttachName", FALSE) EXCEPT !.name = name]
                  /\ procs' = [procs EXCEPT ![o] = d.p]
                  /\ closes' = d.cl
                  /\ UNCHANGED opened
             ELSE \E h \in OpenProcessOutcomes(pid) : \E w \in IsWow64Outcomes(pid) :
                  \E e \in OpenErrors(pid, h) :
                    LET a == AttachOp(procs[o], closes, pid, h, w)
                    IN  /\ procs' = [procs EXCEPT ![o] = a.p]
                        /\ closes' = a.cl
                        /\ opened' = IF h = NULL THEN opened ELSE opened \cup {h}
                        /\ last' = [Call("AttachName", a.ret) EXCEPT
                                        !.rights = AttachRights,
                                        !.probed = (h # NULL /\ w.ok),
                                        !.h = h, !.name = name, !.oserr = e]
    /\ UNCHANGED <<mem, buf, nonProcVars>>

\* Process::Attach(const std::string& name).  CreateToolhelp32Snapshot fails
\* (gt_find_process_id returns false, memory_manager.cpp:107) or yields the
\* snapshot.
AttachName(o, name) ==
    /\ procs[o].alive
    /\ \E snapOk \in BOOLEAN :
       LET pid == IF snapOk THEN gt_find_process_id(name) ELSE 0
       IN  IF pid = 0
             THEN /\ last' = [Call("AttachName", FALSE) EXCEPT !.name = name]
                  /\ UNCHANGED <<procs, closes, opened>>
             ELSE \E h \in OpenProcessOutcomes(pid) : \E w \in IsWow64Outcomes(pid) :
                  \E e \in OpenErrors(pid, h) :
                    LET a == AttachOp(procs[o], closes, pid, h, w)
                    IN  /\ procs' = [procs EXCEPT ![o] = a.p]
                        /\ closes' = a.cl
                        /\ opened' = IF h = NULL THEN opened ELSE opened \cup {h}
                        /\ last' = [Call("AttachName", a.ret) EXCEPT
                                        !.rights = AttachRights,
                                        !.probed = (h # NULL /\ w.ok),
                                        !.h = h, !.name = name, !.oserr = e]
    /\ UNCHANGED <<mem, buf, nonProcVars>>

\* A move assignment that copies the source's fields and leaves the source
\* as it was.
MoveAssignKeepSource(dst, src) ==
    /\ procs[dst].alive /\ procs[src].alive
    /\ IF dst # src
         THEN LET d == DetachOp(procs[dst], closes)
              IN  /\ procs' = [procs EXCEPT ![dst] = [alive |-> TRUE] @@ Fields(procs[src])]
                  /\ closes' = d.cl
         ELSE UNCHANGED <<procs, closes>>
    /\ last' = Call("MoveAssign", TRUE)
    /\ UNCHANGED <<opened, mem, buf, nonProcVars>>

\* Process::operator=(Process&&)
MoveAssign(dst, src) ==
    /\ procs[dst].alive /\ procs[src].alive
    /\ IF dst # src
         THEN LET d == DetachOp(procs[dst], closes)
              IN  /\ procs' = [procs EXCEPT
                       ![dst] = [alive |-> TRUE] @@ Fields(procs[src]),
                       ![src] = [alive |-> TRUE] @@ FreshProcess]
                  /\ closes' = d.cl
         ELSE UNCHANGED <<procs, closes>>
    /\ last' = Call("MoveAssign", TRUE)
    /\ UNCHANGED <<opened, mem, buf, nonProcVars>>

\* Process::Process(Process&&): default member initialisers, then *this = move(other).
MoveConstruct(dst, src) ==
    /\ ~procs[dst].alive /\ procs[src].alive
    /\ procs' = [procs EXCEPT
           ![dst] = [alive |-> TRUE] @@ Fields(procs[src]),
           ![src] = [alive |-> TRUE] @@ FreshProcess]
    /\ last' = Call("MoveConstruct", TRUE)
    /\ UNCHANGED <<opened, closes, mem, buf, nonProcVars>>

\* Read without its handle_ check.
ReadUnchecked(o, addr, sz) ==
    /\ procs[o].alive
    /\ \E r \in TransferOutcomes(procs[o].handle_, addr, sz) :
         /\ buf' = CopyOut(buf, addr, r.n)
         /\ last' = Transfer("Read", procs[o].handle_, r, sz)
    /\ UNCHANGED <<procs, opened, closes, mem, nonProcVars>>

\* Process::Read(addr, buf, sz)
Read(o, addr, sz) ==
    /\ procs[o].alive
    /\ IF procs[o].handle_ = NULL
         THEN /\ last' = [Call("Read", FALSE) EXCEPT !.sz = sz]
              /\ UNCHANGED buf
         ELSE \E r \in TransferOutcomes(procs[o].handle_, addr, sz) :
                /\ buf' = CopyOut(buf, addr, r.n)
                /\ last' = Transfer("Read", procs[o].handle_, r, sz)
    /\ UNCHANGED <<procs, opened, closes, mem, nonProcVars>>

\* Process::Write(addr, buf, sz)
Write(o, addr, data) ==
    /\ procs[o].alive
    /\ IF procs[o].handle_ = NULL
         THEN /\ last' = [Call("Write", FALSE) EXCEPT !.sz = Len(data)]
              /\ UNCHANGED mem
         ELSE \E r \in TransferOutcomes(procs[o].handle_, addr, Len(data)) :
                /\ mem' = CopyIn(data, addr, r.n)
                /\ last' = Transfer("Write", procs[o].handle_, r, Len(data))
    /\ UNCHANGED <<procs, opened, closes, buf, nonProcVars>>

\* ---- C interface (memory_manager.cpp:157-165) ----

\* gt_read(h, addr, buf, sz): no handle check, straight to the OS.
gt_read(h, addr, sz) ==
    /\ \E r \in TransferOutcomes(h, addr, sz) :
         /\ buf' = CopyOut(buf, addr, r.n)
         /\ last' = Transfer("gt_read", h, r, sz)
    /\ UNCHANGED <<procs, opened, closes, mem, nonProcVars>>

\* gt_write(h, addr, buf, sz)
gt_write(h, addr, data) ==
    /\ \E r \in TransferOutcomes(h, addr, Len(data)) :
         /\ mem' = CopyIn(data, addr, r.n)
         /\ last' = Transfer("gt_write", h, r, Len(data))
    /\ UNCHANGED <<procs, opened, closes, buf, nonProcVars>>

\* gt_process_t p = {0}: the struct before its first gt_open_process.
GtFresh == [handle |-> NULL, pid |-> 0, is64bit |-> FALSE]

\* A request for every right on the process.
AllAccessRights == {"ALL_ACCESS"}

\* The access mask gt_open_process passes to OpenProcess
\* (memory_manager.cpp:133).
GtOpenRights == {"VM_READ", "VM_WRITE", "VM_OPERATION", "QUERY_INFORMATION"}

\* gt_open_process(pid, out), out NULL or the caller's struct.  The handle
\* OpenProcess returns goes straight into out->handle (what the field held
\* is not closed); on success the pid is stored and gt_is_process_64bit
\* writes out->is64bit only when IsWow64Process answers, its result is not
\* read.
gt_open_process(pid, out) ==
    /\ IF out = "NULL"
         THEN /\ last' = Call("gt_open_process", FALSE)
              /\ UNCHANGED <<gproc, opened>>
         ELSE \E h \in OpenProcessOutcomes(pid) :
              \E w \in IsWow64Outcomes(IF h = NULL THEN Snapshot[1].pid ELSE pid) :
              \E e \in OpenErrors(pid, h) :
                /\ gproc' = IF h = NULL
                              THEN [gproc EXCEPT !.handle = NULL]
                              ELSE [handle  |-> h, pid |-> pid,
                                    is64bit |-> IF w.ok THEN ~w.isWow64 ELSE gproc.is64bit]
                /\ opened' = IF h = NULL THEN opened ELSE opened \cup {h}
                /\ last' = [Call("gt_open_process", h # NULL) EXCEPT
                                !.rights = GtOpenRights,
                                !.probed = (h # NULL /\ w.ok),
                                !.h = h, !.oserr = e]
    /\ UNCHANGED <<procs, closes, mem, buf, hookVars, inputVars>>

\* gt_close_process(proc): closes a non-NULL handle and clears handle and
\* pid; is64bit keeps its value.
gt_close_process(proc) ==
    /\ IF proc # "NULL" /\ gproc.handle # NULL
         THEN /\ closes' = CloseHandle(closes, gproc.handle)
              /\ gproc' = [gproc EXCEPT !.handle = NULL, !.pid = 0]
         ELSE UNCHANGED <<closes, gproc>>
    /\ last' = Call("gt_close_process", TRUE)
    /\ UNCHANGED <<procs, opened, mem, buf, hookVars, inputVars>>

\* The pointer a caller passes for a gt_process_t*.
StructPtrs == {"NULL", "gproc"}

DataInputs == UNION {[1..n -> Bytes] : n \in Lens}
\* HANDLE arguments a caller of the C interface can hold: NULL or a value
\* OpenProcess returned (open or closed since).
HandleInputs == {NULL} \cup opened

(***************************************************************************)
(*                       Present hook component                            *)
(***************************************************************************)

\* Bounds of the model.
MaxSwapChains == 2   \* swap chains D3D11CreateDeviceAndSwapChain creates in one run
StackDepth    == 2   \* HookedPresent frames the render thread's stack holds
MaxReleases   == 2   \* Release() calls one swap chain takes before its freed memory faults

\* Function pointers.  Every swap chain of the process shares one vtable, so
\* the slot patched through the dummy swap chain is the slot the host calls
\* through.  RealPresents are the values the slot can hold before the first
\* InstallPresentHook.
NullFn        == "null"
HookedPresent == "HookedPresent"
RealPresents  == {"PresentA", "PresentB"}

SwapChains   == 1..MaxSwapChains
PresentArgs  == {[SyncInterval |-> 0, Flags |-> 0], [SyncInterval |-> 1, Flags |-> 1]}
HResults     == {"S_OK", "DXGI_ERROR_DEVICE_REMOVED"}
Garbage      == "uninitialised"

NoPresent == [args |-> [SyncInterval |-> 0, Flags |-> 0], viaHook |-> FALSE,
              origCalls |-> 0, origArgs |-> <<>>, origRet |-> "none",
              ret |-> "none", done |-> FALSE]

\* hook.c:6-7 and a process in which nobody has called the hook functions.
HookStart ==
    /\ g_pSwapChain = NULL
    /\ g_originalPresent = NullFn
    /\ oldProtect = Garbage
    /\ refs = [sc \in SwapChains |-> 0]
    /\ releases = [sc \in SwapChains |-> 0]
    /\ pcH = "idle"
    /\ hret = "none"
    /\ hist = [slotBefore |-> NullFn, calls |-> <<>>, installed |-> FALSE]
    /\ pcR = "idle"
    /\ depth = 0
    /\ pres = NoPresent
    /\ crashed = "no"

Created(sc) == refs[sc] > 0 \/ releases[sc] > 0

\* The last two completed calls, oldest first.
Completed(h, c) ==
    [h EXCEPT !.calls = IF Len(@) < 2 THEN Append(@, c) ELSE <<@[2], c>>]

\* ---- InstallPresentHook (hook.c:24-61) ----

\* The caller enters InstallPresentHook.
InstallCall ==
    /\ crashed = "no" /\ pcH = "idle"
    /\ pcH' = "i_create"
    /\ hist' = [hist EXCEPT !.slotBefore = slot]
    /\ UNCHANGED <<g_pSwapChain, g_originalPresent, slot, prot, oldProtect, refs,
                   releases, hret, pcR, depth, pres, crashed, nonHookVars>>

\* hook.c:36-42, D3D11CreateDeviceAndSwapChain failed: return FALSE.  The
\* call leaves its out parameter as it was or sets it to NULL.
InstallCreateFails ==
    /\ crashed = "no" /\ pcH = "i_create"
    /\ g_pSwapChain' \in {g_pSwapChain, NULL}
    /\ hret' = FALSE
    /\ hist' = Completed(hist, "InstallFailed")
    /\ pcH' = "idle"
    /\ UNCHANGED <<g_originalPresent, slot, prot, oldProtect, refs, releases,
                   pcR, depth, pres, crashed, nonHookVars>>

\* hook.c:36-42, the call succeeded: g_pSwapChain is a new swap chain that
\* the caller holds one reference to.
InstallCreateOk ==
    /\ crashed = "no" /\ pcH = "i_create"
    /\ \E sc \in SwapChains :
         /\ ~Created(sc) /\ \A t \in SwapChains : ~Created(t) => sc <= t
         /\ g_pSwapChain' = sc
         /\ refs' = [refs EXCEPT ![sc] = 1]
    /\ pcH' = "i_save"
    /\ UNCHANGED <<g_originalPresent, slot, prot, oldProtect, releases, hret,
                   hist, pcR, depth, pres, crashed, nonHookVars>>

\* An install that patches the slot without saving what it held.
InstallNoSave ==
    /\ crashed = "no" /\ pcH = "i_save"
    /\ pcH' = "i_unprotect"
    /\ UNCHANGED <<g_pSwapChain, g_originalPresent, slot, prot, oldProtect, refs,
                   releases, hret, hist, pcR, depth, pres, crashed, nonHookVars>>

\* hook.c:45-46: g_originalPresent = vtable[8].
InstallSave ==
    /\ crashed = "no" /\ pcH = "i_save"
    /\ g_originalPresent' = slot
    /\ pcH' = "i_unprotect"
    /\ UNCHANGED <<g_pSwapChain, slot, prot, oldProtect, refs, releases, hret,
                   hist, pcR, depth, pres, crashed, nonHookVars>>

\* VirtualProtect(&vtable[8], sizeof(void*), PAGE_EXECUTE_READWRITE,
\* &oldProtect), result ignored: on success the page is writable and
\* oldProtect holds the former protection; on failure nothing changes and
\* oldProtect keeps its uninitialised value.
Unprotect(from, to) ==
    /\ crashed = "no" /\ pcH = from
    /\ \/ prot' = "RW" /\ oldProtect' = prot
       \/ prot' = prot /\ oldProtect' = Garbage
    /\ pcH' = to
    /\ UNCHANGED <<g_pSwapChain, g_originalPresent, slot, refs, releases, hret,
                   hist, pcR, depth, pres, crashed, nonHookVars>>

\* vtable[8] = v: one pointer-sized store; an access violation ends the
\* process when the page is not writable.
SlotWrite(from, to, v) ==
    /\ crashed = "no" /\ pcH = from
    /\ IF prot = "RW"
         THEN slot' = v /\ pcH' = to /\ UNCHANGED crashed
         ELSE crashed' = "access_violation" /\ UNCHANGED <<slot, pcH>>
    /\ UNCHANGED <<g_pSwapChain, g_originalPresent, prot, oldProtect, refs,
                   releases, hret, hist, pcR, depth, pres, nonHookVars>>

\* VirtualProtect(&vtable[8], sizeof(void*), oldProtect, &oldProtect), result
\* ignored.  With the former protection in oldProtect the call restores it or
\* fails; with an uninitialised oldProtect it fails or sets whatever
\* protection the stack garbage names.
ReprotectOutcomes ==
    IF oldProtect = Garbage THEN {prot, "RO", "RW"} ELSE {prot, oldProtect}

\* hook.c:50-53
InstallUnprotect == Unprotect("i_unprotect", "i_write")

\* hook.c:54
InstallWrite == SlotWrite("i_write", "i_reprotect", HookedPresent)

\* hook.c:55-60: restore the protection, return TRUE.
InstallReprotect ==
    /\ crashed = "no" /\ pcH = "i_reprotect"
    /\ prot' \in ReprotectOutcomes
    /\ oldProtect' = Garbage
    /\ hret' = TRUE
    /\ hist' = [Completed(hist, "Install") EXCEPT !.installed = TRUE]
    /\ pcH' = "idle"
    /\ UNCHANGED <<g_pSwapChain, g_originalPresent, slot, refs, releases, pcR,
                   depth, pres, crashed, nonHookVars>>

\* ---- RemovePresentHook (hook.c:63-77) ----

\* The value RemovePresentHook stores into the slot (hook.c:71), and a
\* variant that stores back what the slot holds already.
RestoreNothing == slot

RestoreValue == g_originalPresent

\* hook.c:64: if (!g_pSwapChain) return;
RemoveNoOp ==
    /\ crashed = "no" /\ pcH = "idle"
    /\ g_pSwapChain = NULL
    /\ hist' = Completed(hist, "RemoveNoOp")
    /\ UNCHANGED <<g_pSwapChain, g_originalPresent, slot, prot, oldProtect, refs,
                   releases, pcH, hret, pcR, depth, pres, crashed, nonHookVars>>

\* hook.c:64, g_pSwapChain is not NULL: the body runs.
RemoveEnter ==
    /\ crashed = "no" /\ pcH = "idle"
    /\ g_pSwapChain # NULL
    /\ pcH' = "r_vtable"
    /\ UNCHANGED <<g_pSwapChain, g_originalPresent, slot, prot, oldProtect, refs,
                   releases, hret, hist, pcR, depth, pres, crashed, nonHookVars>>

\* hook.c:65: vtable = *(void***)g_pSwapChain.  Reading a swap chain that was
\* destroyed is a use after free: the read faults, or the freed memory still
\* holds the vtable pointer and the call goes on.
RemoveVtable ==
    /\ crashed = "no" /\ pcH = "r_vtable"
    /\ IF refs[g_pSwapChain] > 0
         THEN pcH' = "r_unprotect" /\ UNCHANGED crashed
         ELSE \/ /\ releases[g_pSwapChain] < MaxReleases
                 /\ pcH' = "r_unprotect" /\ UNCHANGED crashed
              \/ crashed' = "access_violation" /\ UNCHANGED pcH
    /\ UNCHANGED <<g_pSwapChain, g_originalPresent, slot, prot, oldProtect, refs,
                   releases, hret, hist, pcR, depth, pres, nonHookVars>>

\* hook.c:67-70
RemoveUnprotect == Unprotect("r_unprotect", "r_write")

\* hook.c:71
RemoveWrite == SlotWrite("r_write", "r_reprotect", RestoreValue)

\* hook.c:72-75
RemoveReprotect ==
    /\ crashed = "no" /\ pcH = "r_reprotect"
    /\ prot' \in ReprotectOutcomes
    /\ oldProtect' = Garbage
    /\ pcH' = "r_release"
    /\ UNCHANGED <<g_pSwapChain, g_originalPresent, slot, refs, releases, hret,
                   hist, pcR, depth, pres, crashed, nonHookVars>>

\* hook.c:76: g_pSwapChain->Release(), then return; g_pSwapChain keeps its
\* value.  Release on a destroyed swap chain is a use after free: it faults
\* or returns.
RemoveRelease ==
    /\ crashed = "no" /\ pcH = "r_release"
    /\ releases' = [releases EXCEPT ![g_pSwapChain] = @ + 1]
    /\ IF refs[g_pSwapChain] > 0
         THEN /\ refs' = [refs EXCEPT ![g_pSwapChain] = @ - 1]
              /\ pcH' = "idle"
              /\ hist' = [Completed(hist, "Remove") EXCEPT !.installed = FALSE]
              /\ UNCHANGED crashed
         ELSE \/ /\ pcH' = "idle"
                 /\ hist' = [Completed(hist, "Remove") EXCEPT !.installed = FALSE]
                 /\ UNCHANGED <<refs, crashed>>
              \/ /\ crashed' = "access_violation"
                 /\ UNCHANGED <<refs, pcH, hist>>
    /\ UNCHANGED <<g_pSwapChain, g_originalPresent, slot, prot, oldProtect, hret,
                   pcR, depth, pres, nonHookVars>>

\* ---- the host's render thread ----

\* The original Present ran once with args and returned res.
OriginalRan(p, args, res) ==
    [p EXCEPT !.origCalls = @ + 1, !.origArgs = args, !.origRet = res,
              !.ret = res, !.done = TRUE]

\* swapChain->Present(SyncInterval, Flags): the call goes through slot 8.  A
\* real implementation runs and returns; HookedPresent is entered.
PresentCall(args) ==
    /\ crashed = "no" /\ pcR = "idle"
    /\ LET p == [NoPresent EXCEPT !.args = args, !.viaHook = (slot = HookedPresent)]
       IN  IF slot = HookedPresent
             THEN pres' = p /\ pcR' = "hooked" /\ depth' = 1
             ELSE /\ \E res \in HResults : pres' = OriginalRan(p, args, res)
                  /\ UNCHANGED <<pcR, depth>>
    /\ UNCHANGED <<g_pSwapChain, g_originalPresent, slot, prot, oldProtect, refs,
                   releases, pcH, hret, hist, crashed, nonHookVars>>

\* HookedPresent (hook.c:14-22): return ((PresentFn)g_originalPresent)(This,
\* SyncInterval, Flags).  A null pointer faults; HookedPresent itself is one
\* more frame, until the stack is exhausted; a real implementation runs and
\* its result is returned through every frame.
HookedPresentStep ==
    /\ crashed = "no" /\ pcR = "hooked"
    /\ IF g_originalPresent = NullFn
         THEN crashed' = "null_call" /\ UNCHANGED <<pcR, depth, pres>>
         ELSE IF g_originalPresent = HookedPresent
           THEN IF depth < StackDepth
                  THEN depth' = depth + 1 /\ UNCHANGED <<pcR, pres, crashed>>
                  ELSE crashed' = "stack_overflow" /\ UNCHANGED <<pcR, depth, pres>>
           ELSE /\ \E res \in HResults : pres' = OriginalRan(pres, pres.args, res)
                /\ pcR' = "idle" /\ depth' = 0
                /\ UNCHANGED crashed
    /\ UNCHANGED <<g_pSwapChain, g_originalPresent, slot, prot, oldProtect, refs,
                   releases, pcH, hret, hist, nonHookVars>>

(***************************************************************************)
(*                      Synthetic input component                          *)
(***************************************************************************)

\* Bounds of the model.
MaxTarget == 10      \* largest |targetX| handed to the mouse-move functions

\* Arguments of SendMouseMove and JitteredMouseMove.
TargetInputs == {<<MaxTarget, -7>>, <<0, 0>>, <<-MaxTarget, 3>>}

\* Virtual-key codes: VK_A, VK_Z and a code no layout maps.
VK_A == 65
VK_Z == 90
VK_NONE == 255
VkInputs == {VK_A, VK_Z, VK_NONE}

\* MapVirtualKey(vk, MAPVK_VK_TO_VSC) under the current layout: the scan code
\* of the key, 0 when there is no translation.
Layouts == {"US", "FR", "DE"}
MapVirtualKey(lay, vk) ==
    IF vk = VK_A THEN (IF lay = "FR" THEN 16 ELSE 30)
    ELSE IF vk = VK_Z THEN (IF lay = "US" THEN 44 ELSE IF lay = "FR" THEN 17 ELSE 21)
    ELSE 0

\* The draws of one jittered move: uniform_int_distribution(10, 15), (-1, 1)
\* and (60, 90) in input.cpp; 10 + rand() % 5, rand() % 3 - 1 and
\* 75 + (rand() % 30 - 15) in input.c.
\* A step count that is the same in every call.
StepDrawsFixed(b) == {12}

StepDraws(b)   == IF b = "cpp" THEN 10..15 ELSE 10..14
JitterDraws    == -1..1
\* Delays drawn from a wider range.
SleepDrawsWide(b) == 50..100

SleepDraws(b)  == IF b = "cpp" THEN 60..90 ELSE 60..89
SettleMs       == 10

\* ---- float arithmetic of JitteredMouseMove (IEEE single, round to nearest even) ----

Pow2(n) == 2 ^ n

\* n / d rounded to the nearest integer, ties to even (n >= 0, d > 0).
RoundDivEven(n, d) ==
    LET q == n \div d
        r == n % d
    IN  IF 2 * r > d \/ (2 * r = d /\ q % 2 = 1) THEN q + 1 ELSE q

\* The least e >= 0 with i * 2^e >= steps.
RECURSIVE NormShift(_, _, _)
NormShift(i, steps, e) == IF i * Pow2(e) >= steps THEN e ELSE NormShift(i, steps, e + 1)

\* (float)i / steps for 1 <= i <= steps: <<m, k>> stands for m * 2^-k with a
\* 24-bit m.
FloatFrac(i, steps) ==
    LET e == NormShift(i, steps, 0)
    IN  <<RoundDivEven(i * Pow2(e + 23), steps), e + 23>>

\* The least s >= 0 with p < 2^(24+s).
RECURSIVE OverBits(_, _)
OverBits(p, s) == IF p \div Pow2(s) < Pow2(24) THEN s ELSE OverBits(p, s + 1)

\* Interpolation with exact rational arithmetic: trunc(i * t / steps).
InterpExact(i, steps, t) ==
    IF t >= 0 THEN (i * t) \div steps ELSE -(((i * (-t))) \div steps)

\* (int)(frac * t): the float product rounded to 24 bits, then truncated
\* toward zero.
Interp(i, steps, t) ==
    LET f   == FloatFrac(i, steps)
        a   == IF t >= 0 THEN t ELSE -t
        p   == f[1] * a
        s   == OverBits(p, 0)
        m   == RoundDivEven(p, Pow2(s))
        k   == f[2] - s
        mag == IF k >= 0 THEN m \div Pow2(k) ELSE m * Pow2(-k)
    IN  IF t >= 0 THEN mag ELSE -mag

\* ---- events ----

Mouse(dx, dy, flags) == [type |-> "MOUSE", dx |-> dx, dy |-> dy, flags |-> flags, ok |-> TRUE]
Key(vk, scan, flags, ok) ==
    [type |-> "KEYBOARD", wVk |-> vk, wScan |-> scan % 65536, flags |-> flags, ok |-> ok]
Button(flags, ok) == [type |-> "MOUSE", dx |-> 0, dy |-> 0, flags |-> flags, ok |-> ok]
Sleep(ms) == [type |-> "SLEEP", ms |-> ms]

NoInputCall == [fn |-> "none"]

\* Entering a call: nothing emitted yet.
Entered(c) ==
    /\ call' = c
    /\ events' = <<>>
    /\ cumX' = 0 /\ cumY' = 0 /\ nMoves' = 0 /\ nSleeps' = 0 /\ slept' = 0

InputStart ==
    /\ pcIn = "idle"
    /\ call = NoInputCall
    /\ events = <<>>
    /\ cumX = 0 /\ cumY = 0 /\ nMoves = 0 /\ nSleeps = 0 /\ slept = 0

\* SendMouseMove(dx, dy) (input.cpp:14-21, input.c:4-10): one relative move.
SendMouseMove(dx, dy) ==
    /\ pcIn = "idle"
    /\ call' = [fn |-> "SendMouseMove", x |-> dx, y |-> dy]
    /\ events' = <<Mouse(dx, dy, {"MOVE"})>>
    /\ cumX' = dx /\ cumY' = dy /\ nMoves' = 1 /\ nSleeps' = 0 /\ slept' = 0
    /\ UNCHANGED <<build, pcIn, nonInputVars>>

\* JitteredMouseMove(targetX, targetY) up to the loop (input.cpp:24-30,
\* input.c:13-15): the step count is drawn.
JitterBegin(tx, ty, steps) ==
    /\ pcIn = "idle"
    /\ Entered([fn |-> "JitteredMouseMove", x |-> tx, y |-> ty, steps |-> steps, i |-> 1])
    /\ pcIn' = "jitter"
    /\ UNCHANGED <<build, nonInputVars>>

\* A longer move, for which i / steps * target is a whole number that the
\* float product misses.
LongTargets == {<<108, -108>>}

\* The moves SpecJitter asks for.
JitterTargets == TargetInputs \cup LongTargets

\* Interp over the arguments the model draws, evaluated once.
TargetCoords == {t[1] : t \in JitterTargets} \cup {t[2] : t \in JitterTargets}
InterpTable ==
    [i \in 1..15, steps \in 10..15, t \in TargetCoords |->
        IF i <= steps THEN Interp(i, steps, t) ELSE 0]

\* The relative move one loop iteration emits (input.cpp:32-35).
StepMove(c, jx, jy) ==
    <<InterpTable[c.i, c.steps, c.x] + jx, InterpTable[c.i, c.steps, c.y] + jy>>

\* An iteration that sends its move twice before it sleeps.
JitterStepTwice(jx, jy, ms) ==
    /\ pcIn = "jitter"
    /\ cumX' = cumX + 2 * StepMove(call, jx, jy)[1]
    /\ cumY' = cumY + 2 * StepMove(call, jx, jy)[2]
    /\ nMoves' = nMoves + 2
    /\ nSleeps' = nSleeps + 1
    /\ slept' = slept + ms
    /\ call' = [call EXCEPT !.i = @ + 1]
    /\ pcIn' = IF call.i + 1 <= call.steps THEN "jitter" ELSE "idle"
    /\ UNCHANGED <<build, events, nonInputVars>>

\* One iteration of the loop (input.cpp:31-38, input.c:16-23): the move for
\* step i with the drawn offsets, then the drawn sleep.
JitterStep(jx, jy, ms) ==
    /\ pcIn = "jitter"
    /\ cumX' = cumX + StepMove(call, jx, jy)[1]
    /\ cumY' = cumY + StepMove(call, jx, jy)[2]
    /\ nMoves' = nMoves + 1
    /\ nSleeps' = nSleeps + 1
    /\ slept' = slept + ms
    /\ call' = [call EXCEPT !.i = @ + 1]
    /\ pcIn' = IF call.i + 1 <= call.steps THEN "jitter" ELSE "idle"
    /\ UNCHANGED <<build, events, nonInputVars>>

\* SendKey(vkCode) of input.cpp up to the sleep (input.cpp:88-114): the scan
\* code is looked up under the layout current at the call and the key-down
\* event injected; SendInput's result is not read.
SendKeyDown(vk, lay, ok) ==
    /\ pcIn = "idle" /\ build = "cpp"
    /\ LET sc == MapVirtualKey(lay, vk)
       IN  /\ call' = [fn |-> "SendKey", vk |-> vk, layout |-> lay, scanCode |-> sc]
           /\ events' = <<Key(0, sc, {"SCANCODE"}, ok), Sleep(SettleMs)>>
    /\ cumX' = 0 /\ cumY' = 0 /\ nMoves' = 0 /\ nSleeps' = 0 /\ slept' = 0
    /\ pcIn' = "key_up"
    /\ UNCHANGED <<build, nonInputVars>>

\* A second event that presses the key again instead of releasing it.
SendKeyUpAsDown(ok) ==
    /\ pcIn = "key_up"
    /\ events' = Append(events, Key(0, call.scanCode, {"SCANCODE"}, ok))
    /\ pcIn' = "idle"
    /\ UNCHANGED <<build, call, cumX, cumY, nMoves, nSleeps, slept, nonInputVars>>

\* input.cpp:117: the key-up event.
SendKeyUp(ok) ==
    /\ pcIn = "key_up"
    /\ events' = Append(events, Key(0, call.scanCode, {"SCANCODE", "KEYUP"}, ok))
    /\ pcIn' = "idle"
    /\ UNCHANGED <<build, call, cumX, cumY, nMoves, nSleeps, slept, nonInputVars>>

\* SendKey(vkCode) of input.c (input.c:27-37): one SendInput call carries
\* both events, as virtual-key events.
SendKeyC(vk, lay, ok) ==
    /\ pcIn = "idle" /\ build = "c"
    /\ call' = [fn |-> "SendKey", vk |-> vk, layout |-> lay, scanCode |-> 0]
    /\ events' = <<Key(vk, 0, {}, ok), Key(vk, 0, {"KEYUP"}, ok)>>
    /\ cumX' = 0 /\ cumY' = 0 /\ nMoves' = 0 /\ nSleeps' = 0 /\ slept' = 0
    /\ UNCHANGED <<build, pcIn, nonInputVars>>

\* SendMouseClick / SendMouseRightClick up to the sleep (input.cpp:43-57,
\* 64-78): the button-down event.
ClickDown(button, ok) ==
    /\ pcIn = "idle" /\ build = "cpp"
    /\ call' = [fn |-> IF button = "LEFT" THEN "SendMouseClick" ELSE "SendMouseRightClick",
                button |-> button]
    /\ events' = <<Button({button \o "DOWN"}, ok), Sleep(SettleMs)>>
    /\ cumX' = 0 /\ cumY' = 0 /\ nMoves' = 0 /\ nSleeps' = 0 /\ slept' = 0
    /\ pcIn' = "click_up"
    /\ UNCHANGED <<build, nonInputVars>>

\* A button-up that releases the left button whichever button went down.
ClickUpLeft(ok) ==
    /\ pcIn = "click_up"
    /\ events' = Append(events, Button({"LEFTUP"}, ok))
    /\ pcIn' = "idle"
    /\ UNCHANGED <<build, call, cumX, cumY, nMoves, nSleeps, slept, nonInputVars>>

\* input.cpp:59, 80: the button-up event.
ClickUp(ok) ==
    /\ pcIn = "click_up"
    /\ events' = Append(events, Button({call.button \o "UP"}, ok))
    /\ pcIn' = "idle"
    /\ UNCHANGED <<build, call, cumX, cumY, nMoves, nSleeps, slept, nonInputVars>>

\* The HWND arguments: NULL, a handle whose window is gone (IsWindow is
\* false), and the handle of the game's window.
HwndInputs == {"NULL", "stale", "game"}

\* A message handed to PostMessage for hwnd: lParam carries the scan code in
\* bits 16-23 and the flag bits set; ok is PostMessage's result.
Message(hwnd, msg, vk, scan, flags, ok) ==
    [type |-> "MESSAGE", hwnd |-> hwnd, msg |-> msg, wParam |-> vk,
     scan |-> scan % 256, flags |-> flags, ok |-> ok]

\* SendKeyToWindow(hwnd, vkCode) up to the sleep (input.cpp:122-135): a
\* NULL or invalid handle returns 0; otherwise WM_KEYDOWN is posted, and
\* PostMessage's result is not read.  ret is -1 while the call runs.
SendKeyToWindowDown(hwnd, vk, lay, ok) ==
    /\ pcIn = "idle" /\ build = "cpp"
    /\ LET sc == MapVirtualKey(lay, vk)
       IN  IF hwnd \in {"NULL", "stale"}
             THEN /\ call' = [fn |-> "SendKeyToWindow", hwnd |-> hwnd, vk |-> vk,
                              layout |-> lay, scanCode |-> 0, ret |-> 0]
                  /\ events' = <<>>
                  /\ pcIn' = "idle"
             ELSE /\ call' = [fn |-> "SendKeyToWindow", hwnd |-> hwnd, vk |-> vk,
                              layout |-> lay, scanCode |-> sc, ret |-> -1]
                  /\ events' = <<Message(hwnd, "WM_KEYDOWN", vk, sc, {"EXTENDED"}, ok),
                                 Sleep(SettleMs)>>
                  /\ pcIn' = "post_up"
    /\ cumX' = 0 /\ cumY' = 0 /\ nMoves' = 0 /\ nSleeps' = 0 /\ slept' = 0
    /\ UNCHANGED <<build, nonInputVars>>

\* input.cpp:138-141: WM_KEYUP is posted, its result is not read, return 1.
SendKeyToWindowUp(ok) ==
    /\ pcIn = "post_up"
    /\ events' = Append(events,
                        Message(call.hwnd, "WM_KEYUP", call.vk, call.scanCode,
                                {"EXTENDED", "PREVIOUS_DOWN", "TRANSITION"}, ok))
    /\ call' = [call EXCEPT !.ret = 1]
    /\ pcIn' = "idle"
    /\ UNCHANGED <<build, cumX, cumY, nMoves, nSleeps, slept, nonInputVars>>

(***************************************************************************)
(*                          Specifications                                 *)
(***************************************************************************)

\* The Process component at rest.
ProcStart ==
    /\ procs = [o \in Objs |-> [alive |-> FALSE] @@ FreshProcess]
    /\ opened = {}
    /\ closes = [h \in Handles |-> 0]
    /\ mem = [a \in 0..(MemSize - 1) |-> 0]
    /\ buf = [i \in 1..MaxLen |-> 0]
    /\ last = NoCall
    /\ gproc = GtFresh

\* The state after construction: no Process object exists, no handle is open.
ProcInit ==
    /\ ProcStart
    /\ HookStart /\ slot = "PresentA" /\ prot = "RO"
    /\ InputStart /\ build = "cpp"

\* Lifecycle of Process objects.
ProcNext ==
    \/ \E o \in Objs : Construct(o)
    \/ \E o \in Objs : Destroy(o)
    \/ \E o \in Objs : Detach(o)
    \/ \E o \in Objs, pid \in PidInputs : AttachPid(o, pid)
    \/ \E o \in Objs, name \in NameInputs : AttachName(o, name)
    \/ \E dst \in Objs, src \in Objs : MoveAssign(dst, src)
    \/ \E dst \in Objs, src \in Objs : MoveConstruct(dst, src)

SpecProc == ProcInit /\ [][ProcNext]_vars

\* The C interface next to the class.  The run starts after
\*     Process p1;  gt_process_t p = {0};
GtInit ==
    /\ HookStart /\ slot = "PresentA" /\ prot = "RO"
    /\ InputStart /\ build = "cpp"
    /\ procs = [o \in Objs |-> [alive |-> o = "p1"] @@ FreshProcess]
    /\ opened = {}
    /\ closes = [h \in Handles |-> 0]
    /\ mem = [a \in 0..(MemSize - 1) |-> 0]
    /\ buf = [i \in 1..MaxLen |-> 0]
    /\ last = NoCall
    /\ gproc = GtFresh

GtNext ==
    \/ \E pid \in PidInputs, out \in StructPtrs : gt_open_process(pid, out)
    \/ \E proc \in StructPtrs : gt_close_process(proc)
    \/ \E pid \in PidInputs : AttachPid("p1", pid)
    \/ Detach("p1")

SpecGt == GtInit /\ [][GtNext]_vars

\* Memory transfers.  The run starts after
\*     Process p1, p2;  p1.Attach(4321);   // succeeded, 64-bit target
\* so p1 is attached and p2 was never attached.
MemInit ==
    /\ HookStart /\ slot = "PresentA" /\ prot = "RO"
    /\ InputStart /\ build = "cpp"
    /\ procs = [o \in Objs |->
                  IF o = "p1"
                    THEN [alive |-> TRUE, handle_ |-> 1, pid_ |-> 4321, is64bit_ |-> TRUE]
                    ELSE [alive |-> TRUE] @@ FreshProcess]
    /\ opened = {1}
    /\ closes = [h \in Handles |-> 0]
    /\ mem \in [0..(MemSize - 1) -> Bytes]
    /\ buf = [i \in 1..MaxLen |-> 0]
    /\ last = NoCall
    /\ gproc = GtFresh

MemNext ==
    \/ \E o \in Objs : Detach(o)
    \/ \E dst \in Objs, src \in Objs : MoveAssign(dst, src)
    \/ \E o \in Objs, addr \in Addrs, sz \in Lens : Read(o, addr, sz)
    \/ \E o \in Objs, addr \in Addrs, data \in DataInputs : Write(o, addr, data)
    \/ \E h \in HandleInputs, addr \in Addrs, sz \in Lens : gt_read(h, addr, sz)
    \/ \E h \in HandleInputs, addr \in Addrs, data \in DataInputs : gt_write(h, addr, data)

SpecMem == MemInit /\ [][MemNext]_vars

\* Read and Write alone on the two objects: nothing else writes the target
\* and no handle changes hands.
TripNext ==
    \/ \E o \in Objs, addr \in Addrs, sz \in Lens : Read(o, addr, sz)
    \/ \E o \in Objs, addr \in Addrs, data \in DataInputs : Write(o, addr, data)

SpecTrip == MemInit /\ [][TripNext]_vars

\* p1 attached next to a never-attached p2: the state SpecMem starts from,
\* reachable in SpecProc.
MemInitReached ==
    /\ procs["p1"] = [alive |-> TRUE, handle_ |-> 1, pid_ |-> 4321, is64bit_ |-> TRUE]
    /\ procs["p2"] = [alive |-> TRUE] @@ FreshProcess
    /\ opened = {1} /\ closes[1] = 0

\* The hook component: nobody has called the hook functions; the slot holds
\* some real Present and its page has some protection.
HookInit ==
    /\ ProcStart
    /\ InputStart /\ build = "cpp"
    /\ HookStart
    /\ slot \in RealPresents
    /\ prot \in {"RO", "RW"}

HookNext ==
    \/ InstallCall
    \/ InstallCreateFails
    \/ InstallCreateOk
    \/ InstallSave
    \/ InstallUnprotect
    \/ InstallWrite
    \/ InstallReprotect
    \/ RemoveNoOp
    \/ RemoveEnter
    \/ RemoveVtable
    \/ RemoveUnprotect
    \/ RemoveWrite
    \/ RemoveReprotect
    \/ RemoveRelease
    \/ \E args \in PresentArgs : PresentCall(args)
    \/ HookedPresentStep

SpecHook == HookInit /\ [][HookNext]_vars

\* The input component: either translation unit, no call made yet.
InputInit ==
    /\ ProcStart
    /\ HookStart /\ slot = "PresentA" /\ prot = "RO"
    /\ InputStart
    /\ build \in {"cpp", "c"}

\* The jitter offsets are drawn in full; the sleep of a step is the least
\* draw of its range.
InputNext ==
    \/ \E t \in TargetInputs : SendMouseMove(t[1], t[2])
    \/ \E t \in TargetInputs, steps \in StepDraws(build) : JitterBegin(t[1], t[2], steps)
    \/ \E jx \in JitterDraws, jy \in JitterDraws :
         \E ms \in {CHOOSE lo \in SleepDraws(build) : \A d \in SleepDraws(build) : lo <= d} :
            JitterStep(jx, jy, ms)
    \/ \E vk \in VkInputs, lay \in Layouts, ok \in BOOLEAN : SendKeyDown(vk, lay, ok)
    \/ \E ok \in BOOLEAN : SendKeyUp(ok)
    \/ \E vk \in VkInputs, lay \in Layouts, ok \in BOOLEAN : SendKeyC(vk, lay, ok)
    \/ \E button \in {"LEFT", "RIGHT"}, ok \in BOOLEAN : ClickDown(button, ok)
    \/ \E ok \in BOOLEAN : ClickUp(ok)
    \/ \E hwnd \in HwndInputs, vk \in VkInputs, lay \in Layouts, ok \in BOOLEAN :
         SendKeyToWindowDown(hwnd, vk, lay, ok)
    \/ \E ok \in BOOLEAN : SendKeyToWindowUp(ok)

SpecInput == InputInit /\ [][InputNext]_vars

\* The loop of JitteredMouseMove: the thread inside it is never suspended for
\* good, SendInput returns and every sleep ends, so an iteration that can
\* run does run.
\* Here both axes draw the same offset and the sleep is the least draw of
\* its range.
JitterLoop ==
    \E j \in JitterDraws :
       \E ms \in {d \in SleepDraws(build) : \A e \in SleepDraws(build) : d <= e} :
          JitterStep(j, j, ms)

\* A call of JitteredMouseMove with its draw of the step count.
JitterCall ==
    \E t \in JitterTargets, steps \in StepDraws(build) : JitterBegin(t[1], t[2], steps)

\* An iteration of the loop with its three draws in full.
JitterIteration ==
    \E jx \in JitterDraws, jy \in JitterDraws, ms \in SleepDraws(build) :
        JitterStep(jx, jy, ms)

\* JitteredMouseMove alone, called again and again.
JitterNext ==
    \/ JitterCall
    \/ JitterLoop

SpecJitter == InputInit /\ [][JitterNext]_vars /\ WF_vars(JitterLoop)

\* The delays of JitteredMouseMove: calls for the target (0, 0) with every
\* step count, no offset drawn, and every delay of the range.
SleepNext ==
    \/ \E steps \in StepDraws(build) : JitterBegin(0, 0, steps)
    \/ \E ms \in SleepDraws(build) : JitterStep(0, 0, ms)

SpecSleep == InputInit /\ [][SleepNext]_vars

(***************************************************************************)
(*                     Claims: Process / memory                            *)
(***************************************************************************)

TransferOps == {"Read", "Write", "gt_read", "gt_write"}

\* C1: a memory transfer is never reported as success when it is partial.
\* Read, Write, gt_read and gt_write return success exactly when the OS
\* transfer call was made, reported success and moved as many bytes as were
\* requested; an OS failure, or an OS success that moved fewer bytes, is
\* reported as failure.
PartialTransferNeverSuccess ==
    last.op \in TransferOps =>
        (last.ret <=> (last.osCalls = 1 /\ last.osOk /\ last.osBytes = last.sz))

\* C1 witness: the OS reported success but moved fewer bytes than requested,
\* and Read reported failure.
PartialReadReportedFailed ==
    /\ last.op = "Read" /\ last.osCalls = 1
    /\ last.osOk /\ last.osBytes < last.sz /\ ~last.ret

\* C2: Read and Write on a Process that holds no handle (never attached,
\* detached, or moved from) fail for every address and length, make no OS
\* transfer call and leave target memory (and the caller's buffer) as it was.
DetachedTransferFails ==
    [][(last'.op \in {"Read", "Write"} /\ last'.h = NULL) =>
          (~last'.ret /\ last'.osCalls = 0 /\ mem' = mem /\ buf' = buf)]_vars

\* C2 witness: p1 was moved from (p2 now holds its handle) and a Write on p1
\* failed without an OS call.
MovedFromWriteFailed ==
    /\ procs["p1"].handle_ = NULL /\ procs["p2"].handle_ = 1
    /\ last.op = "Write" /\ last.sz = MaxLen /\ last.osCalls = 0 /\ ~last.ret

\* C3: Detach is idempotent.  From every reachable state of a Process,
\* Detach(); Detach() leaves what one Detach() leaves: no handle, pid 0,
\* bitness reset; on a Process that holds no handle Detach changes nothing;
\* and no handle is ever closed more than once.
DetachIdempotent ==
    /\ \A h \in Handles : closes[h] <= 1
    /\ \A o \in Objs : procs[o].alive =>
         LET d1 == DetachOp(procs[o], closes)
             d2 == DetachOp(d1.p, d1.cl)
         IN  /\ d2 = d1
             /\ Fields(d1.p) = FreshProcess
             /\ procs[o].handle_ = NULL => (d1.p = procs[o] /\ d1.cl = closes)

\* C3 witness: an attached Process was detached; its handle was closed once.
DetachedAfterAttach ==
    /\ last.op = "Detach"
    /\ \E h \in Handles : closes[h] = 1
    /\ \A o \in Objs : procs[o].handle_ = NULL

AttachOps == {"AttachPid", "AttachName"}

\* C12: in every reachable state a Process that holds a handle has a
\* non-zero pid, and every Attach that returned a handle set the architecture
\* flag from an IsWow64Process answer, never from a default.
HandleImpliesPidAndProbedFlag ==
    /\ \A o \in Objs : (procs[o].alive /\ procs[o].handle_ # NULL) => procs[o].pid_ # 0
    /\ (last.op \in AttachOps /\ last.ret) => last.probed

\* No two Process objects hold the same OS handle.
NoSharedHandle ==
    \A o1 \in Objs, o2 \in Objs :
        (o1 # o2 /\ procs[o1].handle_ # NULL) => procs[o1].handle_ # procs[o2].handle_

\* C13: a move transfers ownership and invalidates the source.  After a move
\* construction or move assignment from src to dst the destination holds the
\* source's former (handle, pid, bitness), the source holds no handle and pid
\* 0, and the handle the destination held before was closed (once); a
\* self-move-assignment changes nothing; and in no reachable state two
\* Process objects hold the same handle.
MoveTransfersOwnership ==
    /\ []NoSharedHandle
    /\ [][\A dst \in Objs, src \in Objs :
            (MoveAssign(dst, src) \/ MoveConstruct(dst, src)) =>
               IF dst = src
                 THEN procs' = procs /\ closes' = closes
                 ELSE /\ Fields(procs'[dst]) = Fields(procs[src])
                      /\ Fields(procs'[src]) = FreshProcess
                      /\ closes' = IF procs[dst].handle_ # NULL
                                     THEN CloseHandle(closes, procs[dst].handle_)
                                     ELSE closes]_vars

\* The snapshot holds no process of this name.
NoMatch(name) == \A i \in 1..Len(Snapshot) : Snapshot[i].name # name

\* C14: for every name that matches no process of the snapshot, Attach(name)
\* returns false, makes no OpenProcess request and leaves every Process as it
\* was: none ends up with a handle obtained by that call.
UnknownNameNotFound ==
    [][(last'.op = "AttachName" /\ NoMatch(last'.name)) =>
          (~last'.ret /\ last'.rights = {} /\ opened' = opened /\ procs' = procs)]_vars

\* C14 witness: Attach("nosuch.exe") returned false on a Process that was
\* attached before and still holds its handle.
UnknownNameRejected ==
    /\ last.op = "AttachName" /\ last.name = "nosuch.exe"
    /\ ~last.ret /\ last.rights = {}
    /\ procs["p1"].handle_ = 1 /\ IsOpen(1)

\* The pid of the first snapshot entry, in enumeration order, named name;
\* 0 when there is none.
FirstMatchPid(name) ==
    LET m == {i \in 1..Len(Snapshot) : Snapshot[i].name = name}
    IN  IF m = {} THEN 0 ELSE Snapshot[CHOOSE i \in m : \A j \in m : i <= j].pid

\* C15: gt_find_process_id returns the pid of the first entry, in
\* enumeration order, whose image name equals the requested name, reports
\* not found exactly when no entry matches, and a successful Attach(name)
\* records that pid next to the handle it obtained.
FindReturnsFirstMatch ==
    /\ \A name \in NameInputs :
          /\ gt_find_process_id(name) = FirstMatchPid(name)
          /\ gt_find_process_id(name) = 0 <=> NoMatch(name)
    /\ (last.op = "AttachName" /\ last.ret) =>
          \E o \in Objs : /\ procs[o].handle_ = last.h
                          /\ procs[o].pid_ = FirstMatchPid(last.name)

\* C15 witness: Attach("notepad.exe") succeeded and recorded pid 4321, the
\* first of the two notepad.exe entries.
NotepadAttachedByName ==
    /\ last.op = "AttachName" /\ last.name = "notepad.exe" /\ last.ret
    /\ \E o \in Objs : procs[o].handle_ = last.h /\ procs[o].pid_ = 4321

\* C13 witness: p2, attached before, was move-assigned from the attached p1:
\* p2 holds p1's handle and pid, p1 holds nothing, p2's old handle is closed.
MovedOntoAttached ==
    /\ last.op = "MoveAssign"
    /\ procs["p1"].alive /\ procs["p1"].handle_ = NULL /\ procs["p1"].pid_ = 0
    /\ procs["p2"].handle_ = 1 /\ procs["p2"].pid_ = 4321
    /\ closes[2] = 1 /\ closes[1] = 0

(***************************************************************************)
(*                        Claims: Present hook                             *)
(***************************************************************************)

RemoveBody == {"r_vtable", "r_unprotect", "r_write", "r_reprotect", "r_release"}

\* C4: InstallPresentHook() followed immediately by RemovePresentHook()
\* restores vtable slot 8 to the value it held when InstallPresentHook was
\* called, whatever that value was.
InstallRemoveRestoresSlot ==
    (pcH = "idle" /\ hist.calls = <<"Install", "Remove">>) => slot = hist.slotBefore

\* C4 witness: an Install / Remove pair completed on a slot that held
\* PresentB, while the last Present call of the host went through the hook.
InstallRemovePairDone ==
    /\ pcH = "idle" /\ crashed = "no"
    /\ hist.calls = <<"Install", "Remove">>
    /\ hist.slotBefore = "PresentB" /\ slot = "PresentB"
    /\ pres.viaHook /\ pres.done

\* C5: at most one hook is active per slot and the saved original pointer
\* is immutable once captured: while the slot holds the replacement, the
\* saved original does not change and is never the replacement itself, also
\* when Install is called again.
OneHookOriginalImmutable ==
    [][slot = HookedPresent =>
          (g_originalPresent' = g_originalPresent /\ g_originalPresent' # HookedPresent)]_vars

\* C6: the replacement is a wrapper: a Present call that reaches it through
\* the patched slot invokes the saved original exactly once, with the same
\* arguments, and returns its result; no such call ends in a null call or in
\* unbounded recursion.
HookWrapsOriginal ==
    /\ crashed \notin {"stack_overflow", "null_call"}
    /\ (pres.viaHook /\ pres.done) =>
          (pres.origCalls = 1 /\ pres.origArgs = pres.args /\ pres.ret = pres.origRet)

\* C7: whenever the hook is installed (an Install succeeded and no Remove
\* ran since, no call in progress) the slot holds the replacement and the
\* saved original is callable: not null and not the replacement.
HookStateInvariant ==
    (hist.installed /\ pcH = "idle") =>
        (slot = HookedPresent /\ g_originalPresent \notin {NullFn, HookedPresent})

\* C8: Uninstall is idempotent: its body (slot write, Release) runs only when
\* a hook is installed, and no swap chain is released more than once.
UninstallIdempotent ==
    /\ pcH \in RemoveBody => hist.installed
    /\ \A sc \in SwapChains : releases[sc] <= 1

\* C16: with the render thread calling through the slot while Install or
\* Uninstall runs, the slot holds at every moment either the original
\* pointer (the value it held before the first Install) or the replacement,
\* never any other value: each swap is one pointer-sized store.
SlotOldOrNew ==
    \A v \in RealPresents : (slot = v) => [](slot \in {v, HookedPresent})

\* C16 witness: the render thread entered HookedPresent through the patched
\* slot and is still inside it while RemovePresentHook has already stored the
\* original back.
PresentInsideHookDuringRemove ==
    /\ pcR = "hooked" /\ pres.viaHook
    /\ pcH = "r_reprotect" /\ slot = "PresentB"

InstallBody == {"i_create", "i_save", "i_unprotect", "i_write", "i_reprotect"}

\* The lifecycle state of the hook: inside InstallPresentHook, inside the
\* body of RemovePresentHook, or at rest with the hook installed or not.
HookPhase ==
    IF pcH \in InstallBody THEN "Installing"
    ELSE IF pcH \in RemoveBody THEN "Uninstalling"
    ELSE IF hist.installed THEN "Installed" ELSE "Uninstalled"

\* The steps of Uninstalled -> Installing -> Installed -> Uninstalling ->
\* Uninstalled, and the return of an InstallPresentHook that failed.
LifecycleSteps ==
    { <<"Uninstalled", "Installing">>, <<"Installing", "Installed">>,
      <<"Installed", "Uninstalling">>, <<"Uninstalling", "Uninstalled">>,
      <<"Installing", "Uninstalled">> }

\* C17: the hook lifecycle takes only the steps of the state machine:
\* Install takes effect only from Uninstalled, Uninstall only from
\* Installed, and no sequence of calls takes any other step.
LifecycleFollowsStateMachine ==
    [][HookPhase' # HookPhase => <<HookPhase, HookPhase'>> \in LifecycleSteps]_vars

\* C18: when the OS denies the protection change of InstallPresentHook
\* (oldProtect is still unset at the store), the call fails: it ends in no
\* access violation and does not return TRUE.
InstallFailsWhenProtectDenied ==
    [][(pcH \in {"i_write", "i_reprotect"} /\ oldProtect = Garbage) =>
          (crashed' # "access_violation" /\ (pcH' = "idle" => hret' = FALSE))]_vars

\* C19: when the protection change of RemovePresentHook is denied and the
\* page is not writable, the slot cannot be restored; the call reports that
\* as a result instead of faulting, and the hook stays installed with the
\* saved original still recorded.
BotchedUninstallReported ==
    [][(pcH = "r_write" /\ oldProtect = Garbage /\ prot # "RW"
           /\ <<pcH, crashed>>' # <<pcH, crashed>>) =>
          (crashed' = "no" /\ pcH' = "idle" /\ hist'.installed
             /\ g_originalPresent' = g_originalPresent
             /\ hist'.calls # <<>> /\ hist'.calls[Len(hist'.calls)] = "RemoveFailed")]_vars

(***************************************************************************)
(*                       Claims: synthetic input                           *)
(***************************************************************************)

Abs(n) == IF n >= 0 THEN n ELSE -n

\* C9: when JitteredMouseMove(x, y) has returned, the sum of the relative
\* moves it emitted is within 1 unit of (x, y) in each axis, for every step
\* count drawn.
JitterConvergesToTarget ==
    (call.fn = "JitteredMouseMove" /\ pcIn = "idle") =>
        (Abs(cumX - call.x) <= 1 /\ Abs(cumY - call.y) <= 1)

\* C10: SendKey(code) emits exactly a key-down, the settle delay and a
\* key-up, in this order, both events flagged as scan-code events that carry
\* the scan code the layout maps code to, and nothing else.
SendKeyScanCodePair ==
    (call.fn = "SendKey" /\ pcIn = "idle") =>
        LET sc == MapVirtualKey(call.layout, call.vk)
        IN  /\ Len(events) = 3
            /\ events[1].type = "KEYBOARD" /\ events[1].flags = {"SCANCODE"}
            /\ events[1].wScan = sc /\ events[1].wVk = 0
            /\ events[2] = Sleep(SettleMs)
            /\ events[3].type = "KEYBOARD" /\ events[3].flags = {"SCANCODE", "KEYUP"}
            /\ events[3].wScan = sc /\ events[3].wVk = 0

\* C11: when the injection of the key-down (button-down) event fails, the
\* call does not go on with the sequence: no key-up (button-up) event is
\* injected afterwards by that call.
FailedDownStopsSequence ==
    (call.fn \in {"SendKey", "SendMouseClick", "SendMouseRightClick"}
        /\ Len(events) >= 1 /\ ~events[1].ok) =>
        \A i \in 2..Len(events) : events[i].type # "SLEEP" => ~events[i].ok

\* The counts of a jittered move: N drawn within 10..15, one sleep per move
\* sent, i - 1 moves sent before iteration i, N moves at the return.
JitterCounts ==
    call.fn = "JitteredMouseMove" =>
        /\ call.steps \in 10..15
        /\ nSleeps = nMoves
        /\ pcIn = "jitter" => (call.i <= call.steps /\ nMoves = call.i - 1)
        /\ pcIn = "idle" => nMoves = call.steps

\* C20: every JitteredMouseMove draws a step count N within 10..15, emits
\* exactly N relative mouse moves, each followed by exactly one delay, and
\* returns: a call that entered its loop always leaves it.
JitterEmitsNStepsAndReturns ==
    /\ []JitterCounts
    /\ (pcIn = "jitter") ~> (pcIn = "idle")

\* C20 witness: a call that drew N = 15 has returned after 15 moves and 15
\* sleeps.
JitterReturnedAfterFifteen ==
    /\ call.fn = "JitteredMouseMove" /\ call.steps = 15 /\ pcIn = "idle"
    /\ nMoves = 15 /\ nSleeps = 15

\* C21: in every step i of 1..N of a jittered move each coordinate of the
\* move sent is the interpolation i / N of the target, truncated to an
\* integer, plus an offset of -1, 0 or +1: no coordinate sent is further
\* than 1 from that interpolated value.
SubMoveNearInterpolation ==
    [][(pcIn = "jitter" /\ nMoves' = nMoves + 1) =>
          /\ Abs((cumX' - cumX) - InterpExact(call.i, call.steps, call.x)) <= 1
          /\ Abs((cumY' - cumY) - InterpExact(call.i, call.steps, call.y)) <= 1]_vars

\* The button each click function names in its two events.
ButtonOf(fn) == IF fn = "SendMouseClick" THEN "LEFT" ELSE "RIGHT"

\* C22: a click hands the OS exactly two events, in order: the button-down,
\* then after the settle delay the button-up, both of the function's own
\* button.  SendMouseClick sends only left-button events and
\* SendMouseRightClick only right-button events; between the two events
\* only the down event and the delay have happened.
ClickIsDownDelayUp ==
    call.fn \in {"SendMouseClick", "SendMouseRightClick"} =>
        LET b    == ButtonOf(call.fn)
            down == <<Button({b \o "DOWN"}, events[1].ok), Sleep(SettleMs)>>
        IN  /\ pcIn \in {"click_up", "idle"}
            /\ Len(events) >= 2
            /\ pcIn = "click_up" => events = down
            /\ pcIn = "idle" => events = Append(down, Button({b \o "UP"}, events[3].ok))

\* C22 witness: a right click returned with both events accepted.
RightClickDone ==
    /\ call.fn = "SendMouseRightClick" /\ pcIn = "idle"
    /\ Len(events) = 3
    /\ events[1].flags = {"RIGHTDOWN"} /\ events[1].ok
    /\ events[3].flags = {"RIGHTUP"} /\ events[3].ok

OpenRequestsLeastPrivilege ==
    LET four == {"QUERY_INFORMATION", "VM_READ", "VM_WRITE", "VM_OPERATION"}
    IN  /\ last.op = "AttachPid" => last.rights = four
        /\ last.op = "gt_open_process" =>
              \/ last.rights = four
              \/ last.rights = {} /\ ~last.ret /\ last.h = NULL
        /\ "ALL_ACCESS" \notin last.rights

\* C24 witness: gt_open_process has just opened a handle into the caller's
\* struct while p1 holds the handle an Attach(pid) opened.
BothInterfacesOpened ==
    /\ last.op = "gt_open_process" /\ last.ret
    /\ gproc.handle = last.h /\ IsOpen(gproc.handle)
    /\ procs["p1"].handle_ # NULL /\ IsOpen(procs["p1"].handle_)
    /\ last.rights # {}

\* C25: when Attach returns success the bitness has been probed: the object
\* that holds the new handle has the flag 64-bit exactly when
\* IsWow64Process answered and the target is not a WOW64 process; it has
\* 32-bit when the target is reported as WOW64, and 32-bit when the probe
\* itself failed.
BitnessProbedOnAttach ==
    (last.op \in AttachOps /\ last.ret) =>
        \E o \in Objs :
           /\ procs[o].alive /\ procs[o].handle_ = last.h
           /\ last.probed /\ ~Wow64Of(procs[o].pid_) => procs[o].is64bit_
           /\ last.probed /\ Wow64Of(procs[o].pid_) => ~procs[o].is64bit_
           /\ ~last.probed => ~procs[o].is64bit_

\* C25 witness: p2 has just attached to the WOW64 process Game.exe with the
\* probe answered and is flagged 32-bit, while p1 is attached to the native
\* notepad.exe and flagged 64-bit.
BothBitnessesProbed ==
    /\ last.op = "AttachPid" /\ last.ret /\ last.probed
    /\ procs["p2"].handle_ = last.h /\ procs["p2"].pid_ = 8 /\ ~procs["p2"].is64bit_
    /\ procs["p1"].handle_ # NULL /\ procs["p1"].pid_ = 4321 /\ procs["p1"].is64bit_

\* C26: the result of Attach(pid) tells the class of the OS error: two
\* Attach(pid) calls for which OpenProcess ended differently (a handle,
\* access denied, no such process) return different results, so that the
\* caller can tell insufficient rights from a missing process.
AttachResultTellsErrorClass ==
    [][(last.op = "AttachPid" /\ last'.op = "AttachPid" /\ last.oserr # last'.oserr)
          => last.ret # last'.ret]_vars

\* The names the model uses with upper-case letters folded to lower case.
FoldCase(name) == IF name = "Game.exe" THEN "game.exe" ELSE name

\* C27: name matching is case-insensitive: every name that differs from
\* the name an Attach(name) was given only in letter case resolves to the
\* same process id as that name.
NameMatchIgnoresCase ==
    last.op = "AttachName" =>
        \A n \in NameInputs :
            FoldCase(n) = FoldCase(last.name) =>
                gt_find_process_id(n) = gt_find_process_id(last.name)

FailedCreateHasNoEffect ==
    [][(pcH = "i_create" /\ pcH' = "idle") =>
          /\ hret' = FALSE
          /\ slot' = slot
          /\ g_originalPresent' = g_originalPresent
          /\ hist'.installed = hist.installed
          /\ ~hist.installed => g_pSwapChain' = NULL]_vars

\* C30: SendKeyToWindow returns 1 if successful and 0 if failed.  For a NULL
\* or invalid window handle it returns 0 and posts no message; otherwise it
\* posts WM_KEYDOWN and then WM_KEYUP for vk to that window, and it returns
\* 1 only when both messages were accepted into the window's queue.
SendKeyToWindowReportsDelivery ==
    (call.fn = "SendKeyToWindow" /\ pcIn = "idle") =>
        IF call.hwnd \in {"NULL", "stale"}
          THEN call.ret = 0 /\ events = <<>>
          ELSE /\ Len(events) = 3
               /\ events[1].msg = "WM_KEYDOWN" /\ events[3].msg = "WM_KEYUP"
               /\ \A i \in {1, 3} : events[i].hwnd = call.hwnd /\ events[i].wParam = call.vk
               /\ call.ret \in {0, 1}
               /\ call.ret = 1 => (events[1].ok /\ events[3].ok)

\* C31: handle accounting.  Across Attach, Detach, move construction, move
\* assignment and destruction no handle is closed twice and only handles
\* that OpenProcess returned are closed; a handle that is still open is held
\* by exactly one live Process (never leaked, never shared), a closed one by
\* none; and a successful re-Attach has closed the handle held before.
HandlesClosedExactlyOnce ==
    /\ \A h \in Handles :
          /\ closes[h] <= 1
          /\ closes[h] > 0 => h \in opened
    /\ \A h \in opened :
          Cardinality({o \in Objs : procs[o].alive /\ procs[o].handle_ = h})
              = IF closes[h] = 0 THEN 1 ELSE 0
    /\ \A o \in Objs : ~procs[o].alive => procs[o].handle_ = NULL

\* C31 witness: p1 re-attached: the first handle was closed once and p1
\* holds the second, open.
ReattachClosedPrevious ==
    /\ last.op = "AttachPid" /\ last.ret /\ last.h = 2
    /\ procs["p1"].alive /\ procs["p1"].handle_ = 2 /\ closes[2] = 0
    /\ ~procs["p2"].alive
    /\ opened = {1, 2} /\ closes[1] = 1

\* C32: the saved original is in place before the replacement can be
\* reached.  Whenever the render thread is inside HookedPresent, whatever
\* InstallPresentHook or RemovePresentHook is doing meanwhile, the pointer
\* it is about to call through is a real Present implementation (not null,
\* not a value that is not the captured original), and it stays the same
\* pointer for as long as the call is inside HookedPresent.
OriginalSetBeforeHookReachable ==
    /\ [](pcR = "hooked" => g_originalPresent \in RealPresents)
    /\ [][(pcR = "hooked" /\ pcR' = "hooked") =>
             g_originalPresent' = g_originalPresent]_vars

\* C33: nothing stays pressed.  When a SendKey, SendMouseClick or
\* SendMouseRightClick call has returned and SendInput accepted every event
\* of it, the call emitted exactly one down event and, as the very next
\* event, the up event that matches it: the same key (scan code and virtual
\* key) or the same button.
EveryDownHasItsUp ==
    (/\ pcIn = "idle"
     /\ call.fn \in {"SendKey", "SendMouseClick", "SendMouseRightClick"}
     /\ \A i \in 1..Len(events) : events[i].type = "SLEEP" \/ events[i].ok) =>
        LET inj  == SelectSeq(events, LAMBDA e : e.type # "SLEEP")
            down == inj[1]
            up   == IF down.type = "KEYBOARD"
                      THEN [down EXCEPT !.flags = @ \cup {"KEYUP"}]
                      ELSE [down EXCEPT !.flags = IF @ = {"LEFTDOWN"} THEN {"LEFTUP"}
                                                                     ELSE {"RIGHTUP"}]
        IN  /\ Len(inj) = 2
            /\ IF down.type = "KEYBOARD" THEN "KEYUP" \notin down.flags
                                         ELSE down.flags \in {{"LEFTDOWN"}, {"RIGHTDOWN"}}
            /\ inj[2] = up

\* C33 witness: SendKey('A') under the French layout returned with both
\* events accepted: scan code 16 went down and up.
KeyPressedAndReleased ==
    /\ pcIn = "idle" /\ call.fn = "SendKey" /\ build = "cpp"
    /\ Len(events) = 3
    /\ events[1].ok /\ events[3].ok
    /\ events[1].wScan = 16 /\ events[3].wScan = 16
    /\ "KEYUP" \in events[3].flags

\* C34: a failed Attach(pid) leaves the Process detached whatever it was
\* before: the handle it held has been closed (once more than before), and
\* its handle is null, its pid 0 and its bitness flag false; the earlier
\* attachment is not kept.
FailedAttachDetaches ==
    [][\A o \in Objs, pid \in PidInputs :
          (last'.op = "AttachPid" /\ ~last'.ret /\ AttachPid(o, pid)) =>
             /\ Fields(procs'[o]) = FreshProcess
             /\ procs[o].handle_ # NULL =>
                   closes'[procs[o].handle_] = closes[procs[o].handle_] + 1]_vars

\* C34 witness: an Attach(pid) on p1 was refused by the OS; p1 is detached
\* and the one handle ever opened has been closed.
RefusedAttachLeftDetached ==
    /\ last.op = "AttachPid" /\ ~last.ret /\ last.oserr = "ACCESS_DENIED"
    /\ procs["p1"].alive /\ Fields(procs["p1"]) = FreshProcess
    /\ ~procs["p2"].alive
    /\ opened = {1} /\ closes[1] = 1

\* C35: an Attach(name) whose name matches no process fails and leaves every
\* Process as it was: handle, pid and bitness are unchanged, an attached
\* Process stays attached to its target, and no handle is closed.
UnknownNameLeavesStateAlone ==
    [][(last'.op = "AttachName" /\ gt_find_process_id(last'.name) = 0
          /\ \E o \in Objs : AttachName(o, last'.name)) =>
          /\ ~last'.ret
          /\ procs' = procs
          /\ closes' = closes /\ opened' = opened]_vars

\* C35 witness: Attach("nosuch.exe") has just failed on p1, which is still
\* attached to pid 4321 and holds its handle open.
UnknownNameKeptAttachment ==
    /\ last.op = "AttachName" /\ last.name = "nosuch.exe" /\ ~last.ret
    /\ procs["p1"].alive /\ procs["p1"].pid_ = 4321
    /\ procs["p1"].handle_ # NULL /\ IsOpen(procs["p1"].handle_)
    /\ ~procs["p2"].alive

\* C36: the C interface agrees with the class.  gt_open_process into a
\* struct that holds no handle gives, for the same answers of OpenProcess
\* and of IsWow64Process, the result and the (handle validity, pid, is64bit)
\* that Attach(pid) gives on a fresh Process, also when the probe fails; and
\* gt_close_process leaves the struct as Detach leaves a Process holding the
\* same fields, with the same handle closed.
CInterfaceAgreesWithClass ==
    [][/\ \A pid \in PidInputs :
            (last'.op = "gt_open_process" /\ gproc.handle = NULL
                /\ gt_open_process(pid, "gproc")) =>
               LET w == [ok |-> last'.probed,
                         isWow64 |-> IF last'.h # NULL THEN Wow64Of(pid) ELSE FALSE]
                   a == AttachOp(FreshProcess, closes, pid, last'.h, w)
               IN  /\ last'.ret = a.ret
                   /\ (gproc'.handle # NULL) = (a.p.handle_ # NULL)
                   /\ gproc'.pid = a.p.pid_
                   /\ gproc'.is64bit = a.p.is64bit_
       /\ (last'.op = "gt_close_process" /\ gt_close_process("gproc")) =>
               LET d == DetachOp([handle_ |-> gproc.handle, pid_ |-> gproc.pid,
                                  is64bit_ |-> gproc.is64bit], closes)
               IN  /\ gproc'.handle = d.p.handle_
                   /\ gproc'.pid = d.p.pid_
                   /\ gproc'.is64bit = d.p.is64bit_
                   /\ closes' = d.cl]_vars

\* C37: InstallPresentHook and RemovePresentHook bracket their slot write
\* with a protection change and its reversal.  The step that ends the
\* bracket (the second VirtualProtect, the last step of either call that
\* touches the page) leaves the page with the protection it had when the
\* call began: the value the first VirtualProtect stored in oldProtect, or,
\* when that call changed nothing, the protection the page still has.  And
\* the slot changes only in a step taken while the page is writable.
ProtectionBracketsSlotWrite ==
    /\ [][(pcH \in {"i_reprotect", "r_reprotect"} /\ pcH' # pcH) =>
             prot' = (IF oldProtect = Garbage THEN prot ELSE oldProtect)]_vars
    /\ [][slot' # slot => prot = "RW"]_vars

\* C38: every delay of a jittered move lies in 60..90 ms, whatever was drawn
\* in the steps before; the call sleeps once per step and for nothing else,
\* so that a call that returned has blocked for the sum of its N delays,
\* which is at least 600 ms and at most 1350 ms.
JitterBlocksForSumOfDelays ==
    /\ [][nSleeps' = nSleeps + 1 => (slept' - slept) \in 60..90]_vars
    /\ [](call.fn = "JitteredMouseMove" =>
             /\ slept >= 60 * nSleeps /\ slept <= 90 * nSleeps
             /\ pcIn = "idle" => (nSleeps = call.steps /\ slept \in 600..1350))

\* C38 witness: a call of 15 steps returned after the longest total, 1350 ms.
JitterBlockedLongest ==
    /\ call.fn = "JitteredMouseMove" /\ pcIn = "idle"
    /\ call.steps = 15 /\ nSleeps = 15 /\ slept = 1350

====
